---- MODULE Spec2Model ----
(***************************************************************************)
(* Reconciliation and lifecycle engine of the runtime crate                *)
(* (crates/runtime/src/lib.rs): the dataset load pipeline spawned by       *)
(* load_dataset, the attachment decisions of initialize_dataconnector, the *)
(* model registry operations and the snapshot diff of start_pods_watcher.  *)
(***************************************************************************)
EXTENDS Integers, Sequences, FiniteSets, TLC

\* ------------------------------------------------------------------ bounds
\* snapshots the watcher channel delivers
MaxSnapshots == 1
\* retries (sleep, continue) taken by the load pipelines of one run; the
\* loop of load_dataset itself is unbounded
MaxRetries == 2
\* pipelines spawned in one run
MaxPipelines == 3

\* ------------------------------------------------------------- data model
DatasetNames == {"a", "b"}
ModelNames == {"m", "n"}
Sources == {"localhost", "demo", "flat", "bogus"}
Accelerations == {"absent", "disabled", "memory", "duckdb"}
Modes == {"read", "read_write"}
Sqls == {"none", "from_a", "from_z", "bad"}
EngineLabels == {"None", "memory", "duckdb"}

\* spicepod Dataset: name, from (its source), acceleration (absent, present
\* with enabled = false, or enabled with an engine), replication.enabled,
\* mode and the view query.
Dataset(n, src, acc, repl, md, sql) ==
    [name |-> n, from |-> src, acceleration |-> acc, replication |-> repl,
     mode |-> md, sql |-> sql]

SpicepodModel(n, f) == [name |-> n, from |-> f]

App(ds, ms) == [some |-> TRUE, datasets |-> ds, models |-> ms]
NoApp == [some |-> FALSE, datasets |-> <<>>, models |-> <<>>]

Names(s) == {s[i].name : i \in 1..Len(s)}
Last(s) == s[Len(s)]

\* --------------------------------------------- collaborators (interfaces)
\* Dataset::source(), Dataset::is_view(), Dataset::view_sql(), Dataset::mode()
source(ds) == ds.from
is_view(ds) == ds.sql # "none"
view_sql(ds) ==
    IF ds.sql = "bad" THEN [ok |-> FALSE, some |-> FALSE]
    ELSE [ok |-> TRUE, some |-> ds.sql # "none"]
mode(ds) == ds.mode

\* DataFusion::get_view_dependent_tables: the tables the view's query names
get_view_dependent_tables(ds) ==
    CASE ds.sql = "from_a" -> [ok |-> TRUE, tables |-> {"a"}]
      [] ds.sql = "from_z" -> [ok |-> TRUE, tables |-> {"z"}]
      [] ds.sql = "bad" -> [ok |-> FALSE, tables |-> {}]
      [] OTHER -> [ok |-> TRUE, tables |-> {}]

\* dataconnector::create_new_connector: None for a source the registry does
\* not know, else Some(Ok(connector)) or Some(Err(..)) when construction fails
RegisteredConnectors == {"demo", "flat"}
create_new_connector(src) ==
    IF src \in RegisteredConnectors THEN {"SomeOk", "SomeErr"} ELSE {"None"}

\* DataConnector::has_table_provider, DataConnector::get_data_publisher
connector_has_table_provider(dc) == dc = "demo"
get_data_publisher(dc) == dc = "demo"

\* DataFusion::table_exists
table_exists(tbls, n) == tbls[n] # {}

\* ---------------------------------------------------------------- state
VARIABLES
    app,                 \* Runtime.app: the accepted snapshot
    tables,              \* query engine: name -> attachments made under it
    models,              \* Runtime.models: name -> loaded model, or "None"
    ds_status,           \* status::update_dataset registry
    md_status,           \* status::update_model registry
    datasets_count,      \* gauge datasets_count, per engine label
    models_count,        \* gauge models_count, per model
    datasets_load_error, \* counter datasets_load_error
    models_load_error,   \* counter models_load_error
    pipes,               \* the tasks spawned by load_dataset
    main,                \* the task running load_datasets, load_models, the watcher
    delivered,           \* snapshots received from the watcher channel
    retries,             \* retries taken by the pipelines so far
    locks,               \* the four RwLocks: who holds each, who waits for it
    task                 \* where each task is in its sequence of lock operations

vars == <<app, tables, models, ds_status, md_status, datasets_count,
          models_count, datasets_load_error, models_load_error, pipes, main,
          delivered, retries, locks, task>>

engineVars == <<tables, datasets_count, datasets_load_error, ds_status>>
modelVars == <<models, md_status, models_count, models_load_error>>
lockVars == <<locks, task>>

\* ------------------------------------------------- verify_dependent_tables
verify_dependent_tables_lenient(ds, existing_tables) ==
    IF ~is_view(ds) THEN TRUE
    ELSE get_view_dependent_tables(ds).ok

verify_dependent_tables(ds, existing_tables) ==
    IF ~is_view(ds) THEN TRUE
    ELSE LET dependent_tables == get_view_dependent_tables(ds)
         IN  IF ~dependent_tables.ok THEN FALSE
             ELSE \A tbl \in dependent_tables.tables : tbl \in existing_tables

\* ------------------------------------------ get_dataconnector_from_source
\* The results the call can produce: Ok(None), Ok(Some(connector)),
\* Err(UnableToInitializeDataConnector), Err(UnknownDataConnector).
get_dataconnector_from_source(src) ==
    IF src = "localhost" THEN {[ok |-> TRUE, dc |-> "None", err |-> "none"]}
    ELSE {CASE r = "SomeOk" -> [ok |-> TRUE, dc |-> src, err |-> "none"]
            [] r = "SomeErr" ->
                 [ok |-> FALSE, dc |-> "None", err |-> "UnableToInitializeDataConnector"]
            [] OTHER -> [ok |-> FALSE, dc |-> "None", err |-> "UnknownDataConnector"]
          : r \in create_new_connector(src)}

\* the calls get_dataconnector_from_source makes
resolve_calls(src) ==
    <<"get_secret">> \o (IF src = "localhost" THEN <<>> ELSE <<"create_new_connector">>)

\* ---------------------------------------------------- has_table_provider
has_table_provider_any(dc) == dc # "None"

has_table_provider(dc) == dc # "None" /\ connector_has_table_provider(dc)

\* the test of load_dataset that ends the pipeline without a status
unserved(ds, dc) ==
    ds.acceleration = "absent" /\ ~is_view(ds) /\ ~has_table_provider(dc)

\* ------------------------------------------------ initialize_dataconnector
Call(c, a) == [call |-> c, arg |-> a]

initialize_calls_publish_when_read_write(ds, dc) ==
    LET data_backend_publishing_enabled == mode(ds) = "read_write"
        replicate == ds.replication
    IN  IF view_sql(ds).some THEN <<Call("attach_view", "view")>>
        ELSE IF ds.acceleration \in {"absent", "disabled"} /\ dc # "None"
        THEN <<Call("attach_mesh", "connector")>>
        ELSE <<Call("new_accelerated_backend", "backend")>>
             \o (IF data_backend_publishing_enabled
                 THEN <<Call("attach_publisher", "backend")>> ELSE <<>>)
             \o (IF dc # "None"
                 THEN (IF replicate /\ mode(ds) = "read_write" /\ get_data_publisher(dc)
                       THEN <<Call("attach_publisher", "data_publisher")>> ELSE <<>>)
                      \o <<Call("attach_connector_to_publisher", "connector")>>
                 ELSE <<>>)

initialize_calls_mesh_without_settings(ds, dc) ==
    LET data_backend_publishing_enabled == mode(ds) = "read_write" \/ dc = "None"
        replicate == ds.replication
    IN  IF view_sql(ds).some THEN <<Call("attach_view", "view")>>
        ELSE IF ds.acceleration = "absent" /\ dc # "None"
        THEN <<Call("attach_mesh", "connector")>>
        ELSE <<Call("new_accelerated_backend", "backend")>>
             \o (IF data_backend_publishing_enabled
                 THEN <<Call("attach_publisher", "backend")>> ELSE <<>>)
             \o (IF dc # "None"
                 THEN (IF replicate /\ mode(ds) = "read_write" /\ get_data_publisher(dc)
                       THEN <<Call("attach_publisher", "data_publisher")>> ELSE <<>>)
                      \o <<Call("attach_connector_to_publisher", "connector")>>
                 ELSE <<>>)

\* The query-engine calls initialize_dataconnector makes when none of them
\* fails, in order.
initialize_calls(ds, dc) ==
    LET data_backend_publishing_enabled == mode(ds) = "read_write" \/ dc = "None"
        replicate == ds.replication
    IN  IF view_sql(ds).some THEN <<Call("attach_view", "view")>>
        ELSE IF ds.acceleration \in {"absent", "disabled"} /\ dc # "None"
        THEN <<Call("attach_mesh", "connector")>>
        ELSE <<Call("new_accelerated_backend", "backend")>>
             \o (IF data_backend_publishing_enabled
                 THEN <<Call("attach_publisher", "backend")>> ELSE <<>>)
             \o (IF dc # "None"
                 THEN (IF replicate /\ mode(ds) = "read_write" /\ get_data_publisher(dc)
                       THEN <<Call("attach_publisher", "data_publisher")>> ELSE <<>>)
                      \o <<Call("attach_connector_to_publisher", "connector")>>
                 ELSE <<>>)

\* the label of the datasets_count gauge
engine(ds) ==
    IF ds.acceleration \in {"absent", "disabled"} THEN "None" ELSE ds.acceleration

\* ---------------------------------------------------------- load_dataset
\* The task load_dataset spawns: its clone of the dataset, the names of
\* all_datasets, where it is in the loop, the pass it is in, the connector
\* of this pass, the position in initialize_dataconnector, what it has
\* called in this pass and the statuses it has written so far.
NewPipe(ds, all_datasets) ==
    [ds |-> ds, existing_tables |-> Names(all_datasets), pc |-> "start",
     attempt |-> 1, dc |-> "None", ip |-> 0, calls |-> <<>>, writes |-> <<>>,
     out |-> "running"]

\* status::update_dataset(Error) and the datasets_load_error counter
PipeError(i, p) ==
    /\ ds_status' = [ds_status EXCEPT ![p.ds.name] = "Error"]
    /\ datasets_load_error' = datasets_load_error + 1
    /\ pipes' = [pipes EXCEPT ![i] = [p EXCEPT !.writes = Append(@, "Error")]]

\* the arm of load_dataset for an Err of get_dataconnector_from_source
ResolveFailed_silent(i, p, r) ==
    /\ pipes' = [pipes EXCEPT ![i] = [p EXCEPT !.pc = "sleep"]]
    /\ UNCHANGED <<ds_status, datasets_load_error>>

ResolveFailed_exit(i, p, r) ==
    PipeError(i, [p EXCEPT !.pc = "done", !.out = "error"])

ResolveFailed(i, p, r) ==
    PipeError(i, [p EXCEPT !.pc = "sleep"])

\* One pass of the loop up to initialize_dataconnector: the first pass, or
\* the next one after sleep(1 s) and continue; verify_dependent_tables, then
\* get_dataconnector_from_source, then the unserved test.
PipeResolve(i) ==
    /\ \/ pipes[i].pc = "start"
       \/ pipes[i].pc = "sleep" /\ retries < MaxRetries
    /\ retries' = IF pipes[i].pc = "sleep" THEN retries + 1 ELSE retries
    /\ LET p0 == pipes[i]
           p == IF p0.pc = "start" THEN p0
                ELSE [p0 EXCEPT !.attempt = @ + 1, !.dc = "None", !.ip = 0,
                                !.calls = <<>>]
           q == [p EXCEPT !.calls =
                     @ \o (IF is_view(p.ds) THEN <<"get_view_dependent_tables">>
                           ELSE <<>>)]
           r == [q EXCEPT !.calls = @ \o resolve_calls(source(q.ds))]
       IN  IF ~verify_dependent_tables(q.ds, q.existing_tables)
           THEN PipeError(i, [q EXCEPT !.pc = "done", !.out = "error"])
           ELSE \E got \in get_dataconnector_from_source(source(r.ds)) :
                  IF ~got.ok THEN ResolveFailed(i, r, got)
                  ELSE /\ pipes' = [pipes EXCEPT ![i] =
                             IF unserved(r.ds, got.dc)
                             THEN [r EXCEPT !.pc = "done", !.out = "unserved",
                                            !.dc = got.dc]
                             ELSE [r EXCEPT !.pc = "initialize", !.dc = got.dc,
                                            !.ip = 0]]
                       /\ UNCHANGED <<ds_status, datasets_load_error>>
    /\ UNCHANGED <<lockVars, app, tables, datasets_count, modelVars, main, delivered>>

\* the arm of load_dataset for an Err of initialize_dataconnector
InitializeFailed_exit(i, p) ==
    /\ PipeError(i, [p EXCEPT !.pc = "done", !.out = "error"])
    /\ UNCHANGED <<tables, datasets_count>>

InitializeFailed(i, p) ==
    /\ PipeError(i, [p EXCEPT !.pc = "sleep"])
    /\ UNCHANGED <<tables, datasets_count>>

\* One query-engine call of initialize_dataconnector, and what follows it in
\* load_dataset when it was the last one (gauge, Ready) or when it failed
\* (Error, counter, sleep).
PipeInitialize(i) ==
    /\ pipes[i].pc = "initialize"
    /\ LET p0 == pipes[i]
           plan == initialize_calls(p0.ds, p0.dc)
           c == plan[p0.ip + 1]
           p == [p0 EXCEPT !.calls = Append(@, c.call)]
           n == p.ds.name
       IN  IF ~view_sql(p0.ds).ok
           THEN InitializeFailed(i, p0)
           ELSE \E ok \in BOOLEAN :
                  IF ~ok
                  THEN InitializeFailed(i, p)
                  ELSE /\ tables' =
                            IF c.call = "new_accelerated_backend" THEN tables
                            ELSE [tables EXCEPT ![n] =
                                     @ \cup {[call |-> c.call, arg |-> c.arg,
                                              gen |-> i, attempt |-> p.attempt]}]
                       /\ IF p0.ip + 1 = Len(plan)
                          THEN /\ datasets_count' =
                                     [datasets_count EXCEPT ![engine(p.ds)] = @ + 1]
                               /\ ds_status' = [ds_status EXCEPT ![n] = "Ready"]
                               /\ pipes' = [pipes EXCEPT ![i] =
                                     [p EXCEPT !.pc = "done", !.out = "ready",
                                               !.writes = Append(@, "Ready")]]
                          ELSE /\ pipes' = [pipes EXCEPT ![i] = [p EXCEPT !.ip = @ + 1]]
                               /\ UNCHANGED <<datasets_count, ds_status>>
                       /\ UNCHANGED datasets_load_error
    /\ UNCHANGED <<lockVars, app, modelVars, main, delivered, retries>>

\* ------------------------------------------------- the steps of the main task
\* One step of load_datasets, load_models or start_pods_watcher: a status
\* write, a remove or a load, for the dataset or model `spec`, dispatched
\* for the reason `why`; `res` records how the step ended.
Op(o, st, sp, why) ==
    [op |-> o, name |-> sp.name, st |-> st, spec |-> sp, why |-> why, res |-> "-"]

RECURSIVE Flat(_)
Flat(ss) == IF ss = <<>> THEN <<>> ELSE Head(ss) \o Flat(Tail(ss))

\* iter().find(|d| d.name == name)
Find(s, name) == s[CHOOSE i \in 1..Len(s) :
                     /\ s[i].name = name
                     /\ \A j \in 1..(i - 1) : s[j].name # name]

\* update_dataset: Refreshing, remove_dataset, load_dataset
update_dataset_with_initializing(ds) ==
    <<Op("status_dataset", "Refreshing", ds, "update"),
      Op("remove_dataset", "-", ds, "update"),
      Op("status_dataset", "Initializing", ds, "update"),
      Op("load_dataset", "-", ds, "update")>>

update_dataset(ds) ==
    <<Op("status_dataset", "Refreshing", ds, "update"),
      Op("remove_dataset", "-", ds, "update"),
      Op("load_dataset", "-", ds, "update")>>

update_model_remove_first(m) ==
    <<Op("remove_model", "-", m, "update"),
      Op("status_model", "Refreshing", m, "update"),
      Op("load_model", "-", m, "update")>>

\* update_model: Refreshing, remove_model, load_model
update_model(m) ==
    <<Op("status_model", "Refreshing", m, "update"),
      Op("remove_model", "-", m, "update"),
      Op("load_model", "-", m, "update")>>

\* the callers' Initializing write and load of a new dataset or model
add_dataset(ds) ==
    <<Op("status_dataset", "Initializing", ds, "add"),
      Op("load_dataset", "-", ds, "add")>>

add_model(m) ==
    <<Op("status_model", "Initializing", m, "add"),
      Op("load_model", "-", m, "add")>>

\* the Disabled write and removal of an entity that left the specification
drop_model_remove_first(m) ==
    <<Op("remove_model", "-", m, "remove"),
      Op("status_model", "Disabled", m, "remove")>>

drop_model(m) ==
    <<Op("status_model", "Disabled", m, "remove"),
      Op("remove_model", "-", m, "remove")>>

drop_dataset(ds) ==
    <<Op("status_dataset", "Disabled", ds, "remove"),
      Op("remove_dataset", "-", ds, "remove")>>

\* the arm of the dataset loop of start_pods_watcher for one new dataset
diff_dataset(current_app, ds) ==
    IF ds.name \in Names(current_app.datasets)
    THEN IF Find(current_app.datasets, ds.name) # ds THEN update_dataset(ds) ELSE <<>>
    ELSE add_dataset(ds)

diff_model_always_update(current_app, model) ==
    IF model.name \in Names(current_app.models) THEN update_model(model)
    ELSE add_model(model)

diff_model(current_app, model) ==
    IF model.name \in Names(current_app.models)
    THEN IF Find(current_app.models, model.name) # model THEN update_model(model)
         ELSE <<>>
    ELSE add_model(model)

start_pods_watcher_steps_removals_first(current_app, new_app) ==
    Flat([i \in 1..Len(current_app.datasets) |->
               IF current_app.datasets[i].name \notin Names(new_app.datasets)
               THEN drop_dataset(current_app.datasets[i]) ELSE <<>>])
    \o Flat([i \in 1..Len(current_app.models) |->
               IF current_app.models[i].name \notin Names(new_app.models)
               THEN drop_model(current_app.models[i]) ELSE <<>>])
    \o Flat([i \in 1..Len(new_app.datasets) |-> diff_dataset(current_app, new_app.datasets[i])])
    \o Flat([i \in 1..Len(new_app.models) |-> diff_model(current_app, new_app.models[i])])

\* The four loops of start_pods_watcher, in their order.
start_pods_watcher_steps(current_app, new_app) ==
    Flat([i \in 1..Len(new_app.datasets) |-> diff_dataset(current_app, new_app.datasets[i])])
    \o Flat([i \in 1..Len(new_app.models) |-> diff_model(current_app, new_app.models[i])])
    \o Flat([i \in 1..Len(current_app.models) |->
               IF current_app.models[i].name \notin Names(new_app.models)
               THEN drop_model(current_app.models[i]) ELSE <<>>])
    \o Flat([i \in 1..Len(current_app.datasets) |->
               IF current_app.datasets[i].name \notin Names(new_app.datasets)
               THEN drop_dataset(current_app.datasets[i]) ELSE <<>>])

load_datasets_steps(a) == Flat([i \in 1..Len(a.datasets) |-> add_dataset(a.datasets[i])])
load_models_steps(a) == Flat([i \in 1..Len(a.models) |-> add_model(a.models[i])])

Loads(steps) == Cardinality({i \in 1..Len(steps) : steps[i].op = "load_dataset"})

\* ----------------------------------------------------------- main task
Begin(steps, all) ==
    main' = [main EXCEPT !.busy = TRUE, !.pending = steps, !.done = <<>>, !.new = all]

Advance(res) ==
    main' = [main EXCEPT !.pending = Tail(@),
                         !.done = Append(@, [Head(main.pending) EXCEPT !.res = res])]

Next_op(o) == main.busy /\ main.pending # <<>> /\ Head(main.pending).op = o

\* load_datasets (called once, before the servers start)
load_datasets ==
    /\ main.phase = "load_datasets" /\ ~main.busy
    /\ Begin(load_datasets_steps(app), app)
    /\ UNCHANGED <<lockVars, app, engineVars, modelVars, pipes, delivered, retries>>

\* load_models (called once, after load_datasets)
load_models ==
    /\ main.phase = "load_models" /\ ~main.busy
    /\ Begin(load_models_steps(app), app)
    /\ UNCHANGED <<lockVars, app, engineVars, modelVars, pipes, delivered, retries>>

\* status::update_dataset by the main task
status_update_dataset ==
    /\ Next_op("status_dataset")
    /\ ds_status' = [ds_status EXCEPT ![Head(main.pending).name] = Head(main.pending).st]
    /\ Advance("written")
    /\ UNCHANGED <<lockVars, app, tables, datasets_count, datasets_load_error, modelVars, pipes,
                   delivered, retries>>

\* status::update_model by the main task
status_update_model ==
    /\ Next_op("status_model")
    /\ md_status' = [md_status EXCEPT ![Head(main.pending).name] = Head(main.pending).st]
    /\ Advance("written")
    /\ UNCHANGED <<lockVars, app, engineVars, models, models_count, models_load_error, pipes,
                   delivered, retries>>

\* load_dataset: spawns the pipeline task
load_dataset ==
    /\ Next_op("load_dataset")
    /\ pipes' = Append(pipes, NewPipe(Head(main.pending).spec, main.new.datasets))
    /\ Advance("spawned")
    /\ UNCHANGED <<lockVars, app, engineVars, modelVars, delivered, retries>>

\* remove_dataset
remove_dataset ==
    /\ Next_op("remove_dataset")
    /\ LET ds == Head(main.pending).spec
       IN  IF table_exists(tables, ds.name)
           THEN \E ok \in BOOLEAN :
                  IF ok
                  THEN /\ tables' = [tables EXCEPT ![ds.name] = {}]
                       /\ datasets_count' = [datasets_count EXCEPT ![engine(ds)] = @ - 1]
                       /\ Advance("removed")
                  ELSE /\ UNCHANGED <<tables, datasets_count>>
                       /\ Advance("failed")
           ELSE /\ datasets_count' = [datasets_count EXCEPT ![engine(ds)] = @ - 1]
                /\ UNCHANGED tables
                /\ Advance("absent")
    /\ UNCHANGED <<lockVars, app, ds_status, datasets_load_error, modelVars, pipes, delivered, retries>>

load_model_insert_on_error ==
    /\ Next_op("load_model")
    /\ LET m == Head(main.pending).spec
       IN  \E ok \in BOOLEAN :
             /\ models' = [models EXCEPT ![m.name] = m.from]
             /\ models_count' = [models_count EXCEPT ![m.name] = @ + 1]
             /\ IF ok
                THEN /\ md_status' = [md_status EXCEPT ![m.name] = "Ready"]
                     /\ UNCHANGED models_load_error
                     /\ Advance("Ready")
                ELSE /\ models_load_error' = models_load_error + 1
                     /\ md_status' = [md_status EXCEPT ![m.name] = "Error"]
                     /\ Advance("Error")
    /\ UNCHANGED <<lockVars, app, engineVars, pipes, delivered, retries>>

\* load_model: Model::load succeeds or fails
load_model ==
    /\ Next_op("load_model")
    /\ LET m == Head(main.pending).spec
       IN  \E ok \in BOOLEAN :
             IF ok
             THEN /\ models' = [models EXCEPT ![m.name] = m.from]
                  /\ models_count' = [models_count EXCEPT ![m.name] = @ + 1]
                  /\ md_status' = [md_status EXCEPT ![m.name] = "Ready"]
                  /\ UNCHANGED models_load_error
                  /\ Advance("Ready")
             ELSE /\ models_load_error' = models_load_error + 1
                  /\ md_status' = [md_status EXCEPT ![m.name] = "Error"]
                  /\ UNCHANGED <<models, models_count>>
                  /\ Advance("Error")
    /\ UNCHANGED <<lockVars, app, engineVars, pipes, delivered, retries>>

\* remove_model
remove_model ==
    /\ Next_op("remove_model")
    /\ LET m == Head(main.pending).spec
       IN  IF models[m.name] = "None"
           THEN /\ UNCHANGED <<models, models_count>>
                /\ Advance("not_found")
           ELSE /\ models' = [models EXCEPT ![m.name] = "None"]
                /\ models_count' = [models_count EXCEPT ![m.name] = @ - 1]
                /\ Advance("removed")
    /\ UNCHANGED <<lockVars, app, engineVars, md_status, models_load_error, pipes, delivered, retries>>

\* the end of load_datasets and of load_models
return ==
    /\ main.busy /\ main.pending = <<>> /\ main.phase # "watch"
    /\ main' = [main EXCEPT !.busy = FALSE,
                   !.phase = IF @ = "load_datasets" THEN "load_models" ELSE "watch"]
    /\ UNCHANGED <<lockVars, app, engineVars, modelVars, pipes, delivered, retries>>

\* ------------------------------------------------------ start_pods_watcher
A1 == Dataset("a", "localhost", "absent", FALSE, "read", "none")
B1 == Dataset("b", "demo", "memory", FALSE, "read", "none")
B2 == Dataset("b", "demo", "duckdb", FALSE, "read", "none")
M1 == SpicepodModel("m", "file:one")
M2 == SpicepodModel("m", "file:two")

\* the snapshots the watcher delivers
Snapshots ==
    {App(<<A1, B1>>, <<M1>>), App(<<A1, B2>>, <<M1>>), App(<<A1, B1>>, <<M2>>),
     App(<<A1>>, <<>>)}

\* rx.recv(): the next snapshot; the three arms of the loop body
receive(snapshots) ==
    /\ main.phase = "watch" /\ ~main.busy
    /\ delivered < MaxSnapshots
    /\ \E new_app \in snapshots :
         /\ delivered' = delivered + 1
         /\ IF ~app.some
            THEN /\ app' = new_app
                 /\ main' = [main EXCEPT !.done = <<>>, !.new = new_app]
            ELSE IF app = new_app
            THEN /\ main' = [main EXCEPT !.done = <<>>, !.new = new_app]
                 /\ UNCHANGED app
            ELSE /\ Len(pipes) + Loads(start_pods_watcher_steps(app, new_app)) <= MaxPipelines
                 /\ Begin(start_pods_watcher_steps(app, new_app), new_app)
                 /\ UNCHANGED app
    /\ UNCHANGED <<lockVars, engineVars, modelVars, pipes, retries>>

recv == receive(Snapshots)

\* *current_app = new_app, after the four loops
accept ==
    /\ main.busy /\ main.pending = <<>> /\ main.phase = "watch"
    /\ app' = main.new
    /\ main' = [main EXCEPT !.busy = FALSE]
    /\ UNCHANGED <<lockVars, engineVars, modelVars, pipes, delivered, retries>>

\* ------------------------------------------------------------- the locks
\* Runtime.secrets_provider, Runtime.app, Runtime.models and Runtime.df are
\* tokio RwLocks. What follows is the sequence of lock operations of each
\* function, and the tasks that run them: the caller of load_secrets, the
\* main task (load_datasets, load_models, then start_pods_watcher handling
\* one snapshot that changes a dataset and a model and drops one of each),
\* and the pipelines these spawn.
Locks == {"secrets_provider", "app", "models", "df"}
Tasks == {"load_secrets", "main", "pipeline_1", "pipeline_2"}

Instr(d, l, m, t) == [do |-> d, lock |-> l, mode |-> m, task |-> t]
Acquire(l, m) == Instr("acquire", l, m, "-")
Release(l) == Instr("release", l, "-", "-")
Spawn(t) == Instr("spawn", "-", "-", t)
\* a method taking &mut self: no call on &self is in progress
BorrowMut == Instr("borrow_mut", "-", "-", "-")
\* the end of a pass that may have failed: sleep and continue, or go on
Retry == Instr("retry", "-", "-", "-")

load_secrets_locks_app_write ==
    <<Acquire("secrets_provider", "write"), Acquire("app", "write"),
      Release("app"), Release("secrets_provider")>>

load_secrets_locks ==
    <<Acquire("secrets_provider", "write"), Acquire("app", "read"),
      Release("app"), Release("secrets_provider")>>

load_datasets_locks == <<Acquire("app", "read"), Spawn("pipeline_1"), Release("app")>>

load_model_locks ==
    <<Acquire("models", "write"), Acquire("secrets_provider", "read"),
      Release("secrets_provider"), Release("models")>>

remove_model_locks == <<Acquire("models", "write"), Release("models")>>

remove_dataset_locks == <<Acquire("df", "write"), Release("df")>>

load_models_locks == <<Acquire("app", "read")>> \o load_model_locks \o <<Release("app")>>

\* update_dataset, update_model, the removal of a model and of a dataset
start_pods_watcher_locks ==
    <<BorrowMut, Acquire("app", "write")>>
    \o remove_dataset_locks \o <<Spawn("pipeline_2")>>
    \o remove_model_locks \o load_model_locks
    \o remove_model_locks
    \o remove_dataset_locks
    \o <<Release("app")>>

\* the loop of the task load_dataset spawns, on the accelerated path
load_dataset_locks ==
    <<Acquire("secrets_provider", "read"), Retry,
      Acquire("df", "read"), Release("df"), Retry,
      Acquire("df", "write"), Release("df"), Retry,
      Release("secrets_provider")>>

Program(t) ==
    CASE t = "load_secrets" -> load_secrets_locks
      [] t = "main" -> load_datasets_locks \o load_models_locks \o start_pods_watcher_locks
      [] OTHER -> load_dataset_locks

\* pc = 0: not called or not spawned; pc = Len(Program(t)) + 1: returned
Active(t) == task[t].pc \in 1..Len(Program(t))
Finished(t) == task[t].pc = Len(Program(t)) + 1
At(t) == Program(t)[task[t].pc]
Proceed(t) == task' = [task EXCEPT ![t].pc = @ + 1]
Borrowed ==
    \E k \in 1..Len(Program("main")) :
        Program("main")[k] = BorrowMut /\ task["main"].pc > k

\* the caller calls load_secrets, at any time main has not yet borrowed
\* the runtime for start_servers
call_load_secrets ==
    /\ task["load_secrets"].pc = 0 /\ ~Borrowed
    /\ task' = [task EXCEPT !["load_secrets"].pc = 1]
    /\ UNCHANGED locks

\* RwLock::read().await, RwLock::write().await: the task joins the queue
Request(t) ==
    /\ Active(t) /\ At(t).do = "acquire" /\ ~task[t].waiting
    /\ locks' = [locks EXCEPT ![At(t).lock].queue = Append(@, <<t, At(t).mode>>)]
    /\ task' = [task EXCEPT ![t].waiting = TRUE]

\* the lock goes to the first of the queue: a reader when no writer holds
\* it, a writer when nobody holds it
Granted(t) ==
    /\ Active(t) /\ At(t).do = "acquire" /\ task[t].waiting
    /\ LET l == locks[At(t).lock]
       IN  /\ Head(l.queue) = <<t, At(t).mode>>
           /\ IF At(t).mode = "read"
              THEN \A h \in l.held : h[2] = "read"
              ELSE l.held = {}
           /\ locks' = [locks EXCEPT ![At(t).lock] =
                           [held |-> l.held \cup {<<t, At(t).mode>>},
                            queue |-> Tail(l.queue)]]
    /\ task' = [task EXCEPT ![t].pc = @ + 1, ![t].waiting = FALSE]

\* the guard is dropped
Unlock(t) ==
    /\ Active(t) /\ At(t).do = "release"
    /\ locks' = [locks EXCEPT ![At(t).lock].held = {h \in @ : h[1] # t}]
    /\ Proceed(t)

\* tokio::spawn
SpawnTask(t) ==
    /\ Active(t) /\ At(t).do = "spawn"
    /\ task' = [task EXCEPT ![t].pc = @ + 1, ![At(t).task].pc = 1]
    /\ UNCHANGED locks

\* start_servers(&mut self)
BorrowMutably(t) ==
    /\ Active(t) /\ At(t).do = "borrow_mut"
    /\ ~Active("load_secrets")
    /\ Proceed(t)
    /\ UNCHANGED locks

\* the passes that failed so far, over all pipelines
Failures == task["pipeline_1"].failed + task["pipeline_2"].failed

\* the pass went well, or it failed: the guard of the secrets provider is
\* dropped after the sleep, at `continue`, and the loop starts again
PassEnds(t) ==
    /\ Active(t) /\ At(t).do = "retry"
    /\ \/ Proceed(t) /\ UNCHANGED locks
       \/ /\ Failures < MaxRetries
          /\ locks' = [l \in Locks |->
                          [locks[l] EXCEPT !.held = {h \in @ : h[1] # t}]]
          /\ task' = [task EXCEPT ![t].pc = 1, ![t].failed = @ + 1]

LockStep(t) ==
    /\ \/ Request(t)
       \/ Granted(t)
       \/ Unlock(t)
       \/ SpawnTask(t)
       \/ BorrowMutably(t)
       \/ PassEnds(t)
    /\ UNCHANGED <<app, engineVars, modelVars, pipes, main, delivered, retries>>

CallLoadSecrets ==
    /\ call_load_secrets
    /\ UNCHANGED <<app, engineVars, modelVars, pipes, main, delivered, retries>>

\* ------------------------------------------------------------ behaviours
Zero(S) == [x \in S |-> 0]

InitWith(apps) ==
    /\ app \in apps
    /\ tables = [n \in DatasetNames |-> {}]
    /\ models = [n \in ModelNames |-> "None"]
    /\ ds_status = [n \in DatasetNames |-> "None"]
    /\ md_status = [n \in ModelNames |-> "None"]
    /\ datasets_count = Zero(EngineLabels)
    /\ models_count = Zero(ModelNames)
    /\ datasets_load_error = 0
    /\ models_load_error = 0
    /\ pipes = <<>>
    /\ main = [phase |-> "load_datasets", busy |-> FALSE, pending |-> <<>>,
               done |-> <<>>, new |-> NoApp]
    /\ delivered = 0
    /\ retries = 0
    /\ locks = [l \in Locks |-> [held |-> {}, queue |-> <<>>]]
    /\ task = [t \in Tasks |-> [pc |-> IF t = "main" THEN 1 ELSE 0,
                                 waiting |-> FALSE, failed |-> 0]]

InitApps == {NoApp, App(<<A1, B1>>, <<M1>>), App(<<A1>>, <<>>)}

Init == InitWith(InitApps)

Pipe == \E i \in 1..Len(pipes) :
            PipeResolve(i) \/ PipeInitialize(i)

Next ==
    \/ load_datasets
    \/ load_models
    \/ return
    \/ recv
    \/ accept
    \/ status_update_dataset
    \/ status_update_model
    \/ load_dataset
    \/ remove_dataset
    \/ load_model
    \/ remove_model
    \/ Pipe

Spec == Init /\ [][Next]_vars

\* One dataset of any shape, alone or next to dataset "a", loaded by
\* load_datasets.
AnyB == {Dataset("b", src, acc, repl, md, sql) :
            src \in Sources, acc \in Accelerations, repl \in BOOLEAN,
            md \in Modes, sql \in Sqls}

LoadApps == {App(<<d>>, <<>>) : d \in AnyB} \cup {App(<<A1, d>>, <<>>) : d \in AnyB}

InitLoad == InitWith(LoadApps)

NextLoad ==
    \/ load_datasets
    \/ return
    \/ status_update_dataset
    \/ load_dataset
    \/ Pipe

SpecLoad == InitLoad /\ [][NextLoad]_vars

\* A specification with two models, and a snapshot that changes or adds a
\* dataset, changes or adds a model, and drops a model and a dataset at once.
N1 == SpicepodModel("n", "file:n")

OrderSnapshots == {App(<<B2>>, <<M2>>)}

InitOrder == InitWith({App(<<A1, B1>>, <<M1, N1>>), App(<<A1>>, <<N1>>)})

recv_order == receive(OrderSnapshots)

NextOrder ==
    \/ load_datasets
    \/ load_models
    \/ return
    \/ recv_order
    \/ accept
    \/ status_update_dataset
    \/ status_update_model
    \/ load_dataset
    \/ remove_dataset
    \/ load_model
    \/ remove_model
    \/ Pipe

SpecOrder == InitOrder /\ [][NextOrder]_vars

\* The tasks at the level of their lock operations, each scheduled fairly.
InitLocks == InitWith({NoApp})

NextLocks ==
    \/ CallLoadSecrets
    \/ \E t \in Tasks : LockStep(t)

SpecLocks ==
    /\ InitLocks
    /\ [][NextLocks]_vars
    /\ \A t \in Tasks : WF_vars(LockStep(t))

\* The load pipelines when the connector construction and the query-engine
\* calls fail finitely often: a pass may fail only while the failed passes
\* so far, the waiting ones included, number fewer than MaxRetries, so that
\* every sleep(1 s) is followed by the next pass. The runtime schedules the
\* main task and every spawned task fairly.
FiniteFailures ==
    \A i \in 1..Len(pipes) :
        (pipes'[i] # pipes[i] /\ pipes'[i].pc = "sleep") =>
            retries + Cardinality({j \in 1..Len(pipes) : pipes[j].pc = "sleep"}) < MaxRetries

RetryPipe(i) ==
    /\ i \in 1..Len(pipes)
    /\ PipeResolve(i) \/ PipeInitialize(i)
    /\ FiniteFailures

MainLoad == load_datasets \/ return \/ status_update_dataset \/ load_dataset

NextRetry ==
    \/ load_datasets
    \/ return
    \/ status_update_dataset
    \/ load_dataset
    \/ \E i \in 1..MaxPipelines : RetryPipe(i)

SpecRetry ==
    /\ InitLoad
    /\ [][NextRetry]_vars
    /\ WF_vars(MainLoad)
    /\ \A i \in 1..MaxPipelines : WF_vars(RetryPipe(i))

\* ------------------------------------------------------------ properties
Pipes == 1..Len(pipes)
Steps == main.done \o main.pending
Has(seq, x) == \E k \in 1..Len(seq) : seq[k] = x
AttachCalls == {"attach_view", "attach_mesh", "new_accelerated_backend",
                "attach_publisher", "attach_connector_to_publisher"}
Kind(o) == <<o.op, o.name, o.st>>
Reconciling == main.phase = "watch" /\ main.busy
MainStep == Len(main'.done) = Len(main.done) + 1
Registered(i) == \E r \in tables[pipes[i].ds.name] : r.gen = i

\* the two snapshots hold the same datasets and models, but for the value of
\* dataset x
DiffersOnlyIn(cur, new, x) ==
    /\ cur.models = new.models
    /\ Names(cur.datasets) = Names(new.datasets)
    /\ x \in Names(cur.datasets)
    /\ Find(cur.datasets, x) # Find(new.datasets, x)
    /\ \A n \in Names(cur.datasets) \ {x} : Find(cur.datasets, n) = Find(new.datasets, n)

\* C1: when the new snapshot differs from the accepted one only in the value
\* of dataset x, the steps the watcher dispatches are exactly Refreshing,
\* remove, load for x, so nothing is written, removed or loaded for the
\* datasets and models that are equal in both; and steps are dispatched only
\* when the two snapshots differ.
C1_OnlyTheChangedDataset ==
    Reconciling =>
      /\ app # main.new
      /\ \A x \in DatasetNames :
           DiffersOnlyIn(app, main.new, x) =>
             /\ Len(Steps) = 3
             /\ Kind(Steps[1]) = <<"status_dataset", x, "Refreshing">>
             /\ Kind(Steps[2]) = <<"remove_dataset", x, "-">>
             /\ Kind(Steps[3]) = <<"load_dataset", x, "-">>
             /\ \A k \in 1..3 : Steps[k].spec = Find(main.new.datasets, x)

C1_Witness ==
    /\ Reconciling /\ main.pending = <<>> /\ Len(main.done) = 3
    /\ DiffersOnlyIn(app, main.new, "b")
    /\ "a" \in Names(app.datasets) /\ app.models # <<>>

IsLoad(o) == o.op \in {"load_dataset", "load_model"}
IsStatus(o) == o.op \in {"status_dataset", "status_model"}
IsRemove(o) == o.op \in {"remove_dataset", "remove_model"}

Failed(p) == (p.attempt - 1) + (IF p.pc = "sleep" \/ p.out = "error" THEN 1 ELSE 0)
Errors(n) == [k \in 1..n |-> "Error"]
RECURSIVE ErrorsWritten(_)
ErrorsWritten(i) ==
    IF i = 0 THEN 0
    ELSE ErrorsWritten(i - 1)
         + Cardinality({k \in 1..Len(pipes[i].writes) : pipes[i].writes[k] = "Error"})

Dropped(o) == IsRemove(o) /\ o.why = "remove"

\* C4: for every dataset or model of the accepted snapshot that is absent
\* from the new one, the watcher writes Disabled and then removes it; the
\* removal of a loaded model deletes its entry and decrements models_count by
\* one; and no later step of that reconciliation is for that name.
C4_DisabledBeforeRemove ==
    /\ [](Reconciling =>
            /\ \A n \in Names(app.models) \ Names(main.new.models) :
                 \E k \in 2..Len(Steps) :
                   /\ Kind(Steps[k]) = <<"remove_model", n, "-">>
                   /\ Kind(Steps[k - 1]) = <<"status_model", n, "Disabled">>
            /\ \A n \in Names(app.datasets) \ Names(main.new.datasets) :
                 \E k \in 2..Len(Steps) :
                   /\ Kind(Steps[k]) = <<"remove_dataset", n, "-">>
                   /\ Kind(Steps[k - 1]) = <<"status_dataset", n, "Disabled">>
            /\ \A k \in 1..Len(main.done) :
                 (Dropped(main.done[k]) /\ main.done[k].res = "removed"
                  /\ main.done[k].op = "remove_model") =>
                   /\ models[main.done[k].name] = "None"
                   /\ md_status[main.done[k].name] = "Disabled")
    /\ [][(MainStep /\ main.busy /\ main.pending # <<>>) =>
            LET o == Head(main.pending) IN
              /\ Dropped(o) =>
                   /\ main.done # <<>>
                   /\ IsStatus(Last(main.done))
                   /\ Last(main.done).name = o.name
                   /\ Last(main.done).st = "Disabled"
              /\ (Dropped(o) /\ o.op = "remove_model" /\ models[o.name] # "None") =>
                   /\ models'[o.name] = "None"
                   /\ models_count'[o.name] = models_count[o.name] - 1
                   /\ md_status[o.name] = "Disabled"
              /\ \A k \in 1..Len(main.done) :
                   Dropped(main.done[k]) => main.done[k].name # o.name]_vars

C4_Witness ==
    \E k \in 2..Len(main.done) :
      /\ Kind(main.done[k]) = <<"remove_model", "m", "-">>
      /\ main.done[k].why = "remove" /\ main.done[k].res = "removed"
      /\ Kind(main.done[k - 1]) = <<"status_model", "m", "Disabled">>
      /\ models["m"] = "None" /\ models_count["m"] = 0

\* C5 as stated: remove_dataset for a name the query engine does not hold,
\* and remove_model for a name the registry does not hold, change neither the
\* tables, nor the registry, nor the datasets_count and models_count gauges.
C5_RemoveAbsentIsNoOp ==
    [][(MainStep /\ main.busy /\ main.pending # <<>>) =>
         LET o == Head(main.pending) IN
           /\ (o.op = "remove_dataset" /\ ~table_exists(tables, o.name)) =>
                UNCHANGED <<tables, models, datasets_count, models_count>>
           /\ (o.op = "remove_model" /\ models[o.name] = "None") =>
                UNCHANGED <<tables, models, datasets_count, models_count>>]_vars

\* C6 as stated: the pipeline of a view dataset never asks the connector
\* registry for a connector, and the only query-engine attachment call it
\* makes is attach_view.
C6_ViewSkipsConnector ==
    \A i \in Pipes :
      is_view(pipes[i].ds) =>
        /\ ~Has(pipes[i].calls, "create_new_connector")
        /\ \A k \in 1..Len(pipes[i].calls) :
             pipes[i].calls[k] \in AttachCalls => pipes[i].calls[k] = "attach_view"

\* the view of pipeline p names a table that is not among the names it was
\* given, or the lookup of its tables fails
MissingDependency(p) ==
    /\ p.ds.sql # "none"
    /\ \/ p.ds.sql = "bad"
       \/ p.ds.sql = "from_a" /\ "a" \notin p.existing_tables
       \/ p.ds.sql = "from_z" /\ "z" \notin p.existing_tables

\* C7: a view whose query names a table absent from the names of the
\* specification passed to the load, or whose table lookup fails, does not
\* pass verify_dependent_tables: its pipeline ends at the verification,
\* makes no attachment call, registers nothing and never writes Ready;
\* a dataset that is no view is never stopped by the verification.
C7_MissingDependencyStops ==
    \A i \in Pipes :
      LET p == pipes[i] IN
        /\ p.existing_tables = Names(app.datasets)
        /\ (MissingDependency(p) /\ p.pc # "start") =>
             /\ p.pc = "done" /\ p.out = "error" /\ p.attempt = 1
             /\ \A k \in 1..Len(p.calls) : p.calls[k] \notin AttachCalls
             /\ ~Has(p.writes, "Ready")
             /\ ~Registered(i)
        /\ ~is_view(p.ds) => p.out # "error"

C7_Witness ==
    \E i \in Pipes :
      /\ pipes[i].ds.sql = "from_a" /\ "a" \notin pipes[i].existing_tables
      /\ pipes[i].pc = "done" /\ pipes[i].out = "error"
      /\ ds_status[pipes[i].ds.name] = "Error"

\* C8 as stated: a pipeline whose source the connector registry does not
\* know makes one resolution attempt and no other.
C8_UnknownSourceNotRetried ==
    \A i \in Pipes :
      (source(pipes[i].ds) \notin RegisteredConnectors \cup {"localhost"}) =>
        pipes[i].attempt = 1

\* a dataset that is no view, has no acceleration settings, and has no
\* connector or a connector without table provider
Unservable(ds) ==
    /\ ds.sql = "none" /\ ds.acceleration = "absent"
    /\ \/ ds.from = "localhost"
       \/ ds.from \in RegisteredConnectors /\ ~connector_has_table_provider(ds.from)

C10_OneGeneration ==
    (/\ main.phase = "watch" /\ ~main.busy
     /\ \E k \in 1..Len(main.done) :
          Kind(main.done[k]) = <<"load_dataset", "b", "-">> /\ main.done[k].why = "update"
     /\ \A i \in Pipes : pipes[i].ds.name = "b" => pipes[i].pc = "done")
    =>
    LET newest == CHOOSE i \in Pipes :
                    /\ pipes[i].ds.name = "b"
                    /\ \A j \in Pipes : pipes[j].ds.name = "b" => j <= i
    IN  /\ tables["b"] # {}
        /\ \A r \in tables["b"] : r.gen = newest
        /\ ds_status["b"] = "Ready"

\* the main task takes the step `o`
Takes(o) == MainStep /\ Head(main.pending).op = o

\* C11: a load_model whose Model::load fails leaves the model registry and
\* its gauge as they were, writes Error, adds one to the load-error counter,
\* and its handler dispatches no other load of that model; one that succeeds
\* inserts the entry under the model's name and writes Ready.
C11_FailedModelLoadChangesNothing ==
    [][Takes("load_model") =>
        LET o == Last(main'.done)
            n == o.name
        IN  /\ o.res \in {"Ready", "Error"}
            /\ o.res = "Error" =>
                 /\ models' = models
                 /\ models_count' = models_count
                 /\ md_status' = [md_status EXCEPT ![n] = "Error"]
                 /\ models_load_error' = models_load_error + 1
                 /\ \A k \in 1..Len(Steps') :
                      Steps'[k].op = "load_model" /\ Steps'[k].name = n
                          => k = Len(main'.done)
            /\ o.res = "Ready" =>
                 /\ models' = [models EXCEPT ![n] = o.spec.from]
                 /\ md_status' = [md_status EXCEPT ![n] = "Ready"]
                 /\ models_load_error' = models_load_error]_vars

C11_Witness ==
    \E k \in 1..Len(main.done) :
        /\ main.done[k].op = "load_model" /\ main.done[k].res = "Error"
        /\ main.done[k].why = "update"
        /\ md_status[main.done[k].name] = "Error"
        /\ models_load_error = 1

\* C12: while update_model replaces a loaded model, the registry holds the
\* old or the new entry for that name in every state a reader can see:
\* never the state after the removal and before the insert.  (remove_model
\* and load_model are one step each, and the registry lock is free between
\* the steps of the main task.)
C12_SwapNeverPartiallyVisible ==
    \A k \in 1..Len(main.done) :
        LET o == main.done[k]
        IN  o.op = "remove_model" /\ o.why = "update" /\ o.res = "removed"
                => models[o.name] \in {Find(app.models, o.name).from, o.spec.from}

\* C13 as stated: a pipeline whose dependency verification failed has not
\* exited: it waits out the delay or has started another pass.
C13_VerificationFailureRetried ==
    \A i \in Pipes :
      LET p == pipes[i] IN
        (MissingDependency(p) /\ p.pc # "start") =>
            /\ p.pc # "done"
            /\ p.pc = "sleep" \/ p.attempt > 1

\* the calls of the current pass made by initialize_dataconnector
StrategistCalls(p) ==
    LET before == Len(resolve_calls(source(p.ds))) + (IF is_view(p.ds) THEN 1 ELSE 0)
    IN  SubSeq(p.calls, before + 1, Len(p.calls))

\* what pipeline i has attached under the name of its dataset
Attached(i) == {[call |-> r.call, arg |-> r.arg] : r \in {x \in tables[pipes[i].ds.name] : x.gen = i}}

\* C14: for a dataset that is no view, whose acceleration settings are
\* absent or have enabled = false, and for which the pass resolved a
\* connector, initialize_dataconnector calls attach_mesh with the connector
\* and nothing else: no backend is created, no publisher attached, nothing
\* wired; when the call succeeds the pipeline is Ready with that single
\* attachment.
C14_MeshOnly ==
    \A i \in Pipes :
      LET p == pipes[i] IN
        (~is_view(p.ds) /\ p.ds.acceleration \in {"absent", "disabled"} /\ p.dc # "None") =>
            /\ StrategistCalls(p) \in {<<>>, <<"attach_mesh">>}
            /\ Attached(i) \subseteq {Call("attach_mesh", "connector")}
            /\ p.pc = "initialize" => StrategistCalls(p) = <<>> /\ Attached(i) = {}
            /\ p.out = "ready" =>
                 /\ StrategistCalls(p) = <<"attach_mesh">>
                 /\ Attached(i) = {Call("attach_mesh", "connector")}

C14_Witness ==
    \E i \in Pipes :
      /\ pipes[i].ds.sql = "none" /\ pipes[i].ds.acceleration = "disabled"
      /\ pipes[i].dc = "flat" /\ pipes[i].out = "ready"
      /\ Has(pipes[i].calls, "attach_mesh")
      /\ ds_status[pipes[i].ds.name] = "Ready"

\* what pipeline i attached in its pass number att
AttachedIn(i, att) ==
    {[call |-> r.call, arg |-> r.arg] :
        r \in {x \in tables[pipes[i].ds.name] : x.gen = i /\ x.attempt = att}}

Count(seq, x) == Cardinality({k \in 1..Len(seq) : seq[k] = x})

\* C15: a pass of initialize_dataconnector on the accelerated path (no view;
\* acceleration enabled, or no connector) in which no call fails creates one
\* backend, first; attaches it as publisher exactly when the mode is
\* read_write or there is no connector; attaches the connector's data
\* publisher exactly when there is a connector, the mode is read_write,
\* replication is enabled and the connector has a data publisher; and wires
\* the connector to the backend exactly when there is a connector, as the
\* last call.
C15_AcceleratedPath ==
    \A i \in Pipes :
      LET p == pipes[i]
          made == StrategistCalls(p)
          att == AttachedIn(i, p.attempt)
      IN  (p.out = "ready" /\ ~is_view(p.ds)
             /\ (p.ds.acceleration \in {"memory", "duckdb"} \/ p.dc = "None")) =>
            /\ Count(made, "new_accelerated_backend") = 1
            /\ Head(made) = "new_accelerated_backend"
            /\ Call("attach_publisher", "backend") \in att
                 <=> (p.ds.mode = "read_write" \/ p.dc = "None")
            /\ Call("attach_publisher", "data_publisher") \in att
                 <=> (p.dc # "None" /\ p.ds.mode = "read_write" /\ p.ds.replication
                      /\ get_data_publisher(p.dc))
            /\ Call("attach_connector_to_publisher", "connector") \in att
                 <=> p.dc # "None"
            /\ p.dc # "None" => Last(made) = "attach_connector_to_publisher"
            /\ Count(made, "attach_connector_to_publisher") <= 1
            /\ Len(made) = 1 + Cardinality(att)
            /\ att \subseteq {Call("attach_publisher", "backend"),
                              Call("attach_publisher", "data_publisher"),
                              Call("attach_connector_to_publisher", "connector")}

\* replication asked of a connector without data publisher: the pass goes on
C15_Witness ==
    \E i \in Pipes :
      /\ pipes[i].out = "ready" /\ pipes[i].dc = "flat"
      /\ pipes[i].ds.acceleration = "memory" /\ pipes[i].ds.mode = "read_write"
      /\ pipes[i].ds.replication
      /\ StrategistCalls(pipes[i]) =
           <<"new_accelerated_backend", "attach_publisher", "attach_connector_to_publisher">>

\* C16: when a create or attach call of initialize_dataconnector fails, the
\* pass makes no further call, registers nothing, does not write Ready and
\* leaves the datasets_count gauge alone; Error is written, the counter
\* grows by one, and the pipeline does not exit: it sleeps, and its only
\* next step is the next pass.
C16_FailedCallAbortsThePass ==
    /\ [](\A i \in Pipes :
            LET p == pipes[i] IN
              (p.pc = "sleep" /\ StrategistCalls(p) # <<>>) =>
                 /\ p.out = "running"
                 /\ Last(p.writes) = "Error" /\ ~Has(p.writes, "Ready")
                 /\ Len(StrategistCalls(p)) <= Len(initialize_calls(p.ds, p.dc))
                 /\ retries < MaxRetries => ENABLED PipeResolve(i))
    /\ [][\A i \in Pipes :
            LET p == pipes[i]
                q == pipes'[i]
            IN  /\ (p.pc = "initialize" /\ q # p) =>
                     /\ Len(q.calls) = Len(p.calls) + 1
                     /\ \/ q.pc = "initialize"
                        \/ q.out = "ready"
                        \/ /\ q.pc = "sleep" /\ q.out = "running"
                           /\ tables' = tables
                           /\ datasets_count' = datasets_count
                           /\ ds_status'[p.ds.name] = "Error"
                           /\ datasets_load_error' = datasets_load_error + 1
                /\ (p.pc = "sleep" /\ q # p) =>
                     /\ q.attempt = p.attempt + 1
                     /\ Len(StrategistCalls(q)) = 0]_vars

\* the publisher attach fails after the backend was created
C16_Witness ==
    \E i \in Pipes :
      /\ pipes[i].pc = "sleep"
      /\ StrategistCalls(pipes[i]) = <<"new_accelerated_backend", "attach_publisher">>
      /\ AttachedIn(i, pipes[i].attempt) = {}
      /\ ds_status[pipes[i].ds.name] = "Error"
      /\ datasets_count = Zero(EngineLabels)

\* a dataset the pipeline can serve: its source is "localhost" or a
\* registered connector, what its view reads is declared, and it is not of
\* the unserved shape
Servable(p) ==
    /\ source(p.ds) \in RegisteredConnectors \cup {"localhost"}
    /\ ~MissingDependency(p)
    /\ ~Unservable(p.ds)

\* C17: the pipeline of a servable dataset, when its collaborators fail
\* finitely often and the tasks are scheduled fairly, eventually writes
\* Ready and stops, however many passes that takes; it never stops in any
\* other way, so that it neither stops nor writes Ready while its passes
\* keep failing.
C17_EventuallyReady ==
    /\ \A i \in 1..MaxPipelines :
          (i \in Pipes /\ Servable(pipes[i]))
              ~> (i \in Pipes /\ pipes[i].pc = "done" /\ pipes[i].out = "ready"
                  /\ Last(pipes[i].writes) = "Ready")
    /\ [](\A i \in Pipes :
            LET p == pipes[i] IN
              Servable(p) =>
                /\ p.pc = "done" => p.out = "ready"
                /\ p.out # "ready" => ~Has(p.writes, "Ready")
                /\ p.writes = Errors(p.attempt - 1)
                                 \o (IF p.pc = "sleep" THEN <<"Error">> ELSE <<>>)
                                 \o (IF p.out = "ready" THEN <<"Ready">> ELSE <<>>))

\* Ready in the third pass, after a failed construction and a failed attach
C17_Witness ==
    \E i \in Pipes :
      /\ Servable(pipes[i]) /\ pipes[i].out = "ready"
      /\ pipes[i].attempt = 3
      /\ pipes[i].writes = <<"Error", "Error", "Ready">>

\* the loop of start_pods_watcher a step belongs to
Loop(o) ==
    LET on_dataset == o.op \in {"status_dataset", "remove_dataset", "load_dataset"}
    IN  CASE on_dataset /\ o.why \in {"add", "update"} -> 1
          [] ~on_dataset /\ o.why \in {"add", "update"} -> 2
          [] ~on_dataset /\ o.why = "remove" -> 3
          [] on_dataset /\ o.why = "remove" -> 4

\* C18: for one snapshot the watcher dispatches the dataset adds and
\* updates, then the model adds and updates, then the model removals, then
\* the dataset removals; the accepted snapshot stays the old one until the
\* last of these is dispatched and is then replaced by the new one, whether
\* or not the pipelines spawned on the way have finished.
C18_DispatchOrder ==
    /\ [](main.phase = "watch" =>
            /\ \A j, k \in 1..Len(Steps) : j < k => Loop(Steps[j]) <= Loop(Steps[k])
            /\ (main.busy /\ main.pending # <<>>) => app # main.new
            /\ (main.busy /\ main.pending = <<>>) => ENABLED accept)
    /\ [][(app.some /\ app' # app) =>
            /\ main.busy /\ main.pending = <<>>
            /\ app' = main.new
            /\ pipes' = pipes]_vars

\* all four loops dispatched, the snapshot replaced, a pipeline spawned for
\* it still running
C18_Witness ==
    /\ main.phase = "watch" /\ ~main.busy /\ app = main.new
    /\ {Loop(main.done[k]) : k \in 1..Len(main.done)} = {1, 2, 3, 4}
    /\ \E i \in Pipes : pipes[i].ds = B2 /\ pipes[i].pc = "start"

\* C20: with load_models and the watcher as the only writers, a model whose
\* status is Ready has an entry in the registry, counted once by the
\* models_count gauge.
C20_ReadyModelIsRegistered ==
    \A n \in ModelNames :
        md_status[n] = "Ready" =>
            /\ models[n] # "None"
            /\ models_count[n] = 1

\* Ready again after an update that removed the old entry
C20_Witness ==
    /\ md_status["m"] = "Ready" /\ models["m"] = M2.from
    /\ \E k \in 1..Len(main.done) :
         main.done[k].op = "remove_model" /\ main.done[k].res = "removed"

\* C19: the lock orders of load_secrets (secrets provider write, then app
\* read), load_models and the watcher (app, then the model registry write,
\* then the secrets provider read) and the pipelines (secrets provider read,
\* then the query engine read or write) never bring the tasks to a state
\* where some are unfinished and none can take a step, and every task
\* that was started finishes. load_secrets, on &self, runs beside
\* load_datasets, load_models and the pipelines, and not beside
\* start_pods_watcher, which start_servers runs on &mut self.
C19_NoDeadlock ==
    /\ []((\E t \in Tasks : Active(t)) =>
            \E t \in Tasks : Active(t) /\ ENABLED LockStep(t))
    /\ \A t \in Tasks : Active(t) ~> Finished(t)

\* load_secrets holds the secrets provider, load_model (holding app and the
\* model registry) and a pipeline wait for it
C19_Witness ==
    /\ <<"load_secrets", "write">> \in locks["secrets_provider"].held
    /\ <<"main", "write">> \in locks["models"].held
    /\ <<"main", "read">> \in locks["app"].held
    /\ locks["secrets_provider"].queue = <<<<"main", "read">>, <<"pipeline_1", "read">>>>

\* C21 as stated: over all passes of one pipeline the accelerated backend is
\* attached as publisher under the dataset's name at most once.
C21_BackendPublisherOnce ==
    \A i \in Pipes :
        Cardinality({r \in tables[pipes[i].ds.name] :
                        r.gen = i /\ r.call = "attach_publisher" /\ r.arg = "backend"}) <= 1

\* C22 as stated: after the watcher has written Disabled for a dataset that
\* left the specification and its table is gone, the dataset stays removed:
\* nothing is registered under its name and its status stays Disabled,
\* whatever the pipelines spawned for it earlier do.
C22_RemovedStaysRemoved ==
    \A k \in 1..Len(main.done) :
        LET o == main.done[k]
        IN  (/\ main.phase = "watch"
             /\ o.op = "remove_dataset" /\ o.why = "remove"
             /\ o.res \in {"removed", "absent"}
             /\ o.name \notin Names(main.new.datasets))
            => /\ tables[o.name] = {}
               /\ ds_status[o.name] = "Disabled"

====
